---- MODULE Spec2Model ----
(***************************************************************************)
(* Model of app.py, the Streamlit species look-up page of the Flore        *)
(* repository.  Text is modelled as a sequence of one-token strings; a     *)
(* token is a character, except that the two header names "CD_REF" and     *)
(* "NOM LATIN" are single tokens.                                          *)
(***************************************************************************)
EXTENDS Integers, Sequences, FiniteSets, TLC

VARIABLES
    \* --- load_cd_ref_data / get_cd_ref_from_csv and the URL builders
    csv_file,        \* the file DATA_CD_REF.csv: [exists, lines]
    TAXREF_DATA,     \* module global set from load_cd_ref_data
    csv_pc,          \* "start" | "loaded" | "queried" | "off"
    q_species,       \* argument of the last look-up
    q_cd_ref,        \* get_cd_ref_from_csv(q_species)
    q_openobs,       \* iframe URL of openobs_embed(q_species)
    q_biodiv,        \* biodivaura_url(q_species)
    q_inpn,          \* inpn_species_url(q_species)
    \* --- the script's debug switch
    DEBUG_MODE,      \* module global set from the ?debug=true query parameter
    \* --- florealpes_search applied to one answer of the site
    s_species,       \* the species searched
    s_home,          \* outcome of the home page request
    s_search,        \* answer to the search request
    s_out,           \* what florealpes_search did: [ret, exc, msgs, reqs]
    \* --- tela_botanica_url applied to one answer of the eFlore API
    t_species,       \* the species looked up
    t_response,      \* answer of the API
    t_out,           \* what tela_botanica_url did: [ret, exc, msgs, reqs]
    \* --- the script, rerun by Streamlit on every interaction
    session_state,   \* st.session_state: a mapping, with key "button_clicked" or empty
    input_txt,       \* value of the text area in the current run
    button_pressed,  \* value of st.button in the current run
    pc,              \* where the script is: "start", "idle", a tab of the loop, "crashed"
    species_list,    \* the list built at line 512
    sp_idx,          \* loop index
    sections,        \* the result sections rendered by the current run
    url_fa,          \* local of the FloreAlpes tab
    scraped,         \* (img, tbl) of the FloreAlpes tab
    url_tb,          \* local of the Tela Botanica tab
    last,            \* effects of the last call: [fn, reqs, msgs]
    search_cache,    \* st.cache_data store of florealpes_search
    html_cache,      \* st.cache_data store of fetch_html
    now,             \* the clock, in seconds
    runs,            \* number of script runs so far
    ticks,           \* number of clock advances so far
    pressed_before,  \* history: the search button was pressed in some run
    failed_run,      \* history: a request of the current run failed
    failed_keys      \* history: the species whose cached search result is a failure's

csv_vars == <<csv_file, TAXREF_DATA, csv_pc, q_species, q_cd_ref,
              q_openobs, q_biodiv, q_inpn>>

search_vars == <<s_species, s_home, s_search, s_out>>

tela_vars == <<t_species, t_response, t_out>>

app_vars == <<session_state, input_txt, button_pressed, pc, species_list, sp_idx,
              sections, url_fa, scraped, url_tb, last, search_cache, html_cache,
              now, runs, ticks, pressed_before, failed_run, failed_keys>>

vars == <<csv_vars, DEBUG_MODE, search_vars, tela_vars, app_vars>>

\* the result record of a function that has not been called
NotCalled == [ret |-> <<"<None>">>, exc |-> "none", msgs |-> {}, reqs |-> <<>>]

CsvOff ==
    /\ csv_file = [exists |-> FALSE, lines |-> <<>>]
    /\ TAXREF_DATA = [kind |-> "unset", rows |-> <<>>, msg |-> ""]
    /\ csv_pc = "off"
    /\ q_species = <<"<None>">>
    /\ q_cd_ref = <<"<None>">>
    /\ q_openobs = <<"<None>">>
    /\ q_biodiv = <<"<None>">>
    /\ q_inpn = <<"<None>">>

SearchOff ==
    /\ s_species = <<"<None>">>
    /\ s_home = "none"
    /\ s_search = [exc |-> "RequestException"]
    /\ s_out = NotCalled

TelaOff ==
    /\ t_species = <<"<None>">>
    /\ t_response = [exc |-> "RequestException"]
    /\ t_out = NotCalled

NoTable == [kind |-> "None", rows |-> <<>>]

NoCall == [fn |-> "", reqs |-> <<>>, msgs |-> {}]

\* a mapping with no key
EmptyMap == [k \in {} |-> 0]

AppOff ==
    /\ session_state = EmptyMap
    /\ input_txt = <<>>
    /\ button_pressed = FALSE
    /\ pc = "off"
    /\ species_list = <<>>
    /\ sp_idx = 0
    /\ sections = <<>>
    /\ url_fa = <<"<None>">>
    /\ scraped = [img |-> <<"<None>">>, tbl |-> NoTable]
    /\ url_tb = <<"<None>">>
    /\ last = NoCall
    /\ search_cache = EmptyMap
    /\ html_cache = EmptyMap
    /\ now = 0
    /\ runs = 0
    /\ ticks = 0
    /\ pressed_before = FALSE
    /\ failed_run = FALSE
    /\ failed_keys = {}

-----------------------------------------------------------------------------
(* Python values *)

\* Python None where a str is expected (no text contains this token)
None == <<"<None>">>

\* pandas missing value in an object column
NaN == <<"<NaN>">>

\* str(float('nan')), what Series.astype(str) makes of a missing value
NanText == <<"n", "a", "n">>

\* characters removed by str.strip()
Whitespace == {" ", "\t", "\n", "\r"}

RECURSIVE lstrip(_)
lstrip(s) ==
    IF s # <<>> /\ Head(s) \in Whitespace THEN lstrip(Tail(s)) ELSE s

RECURSIVE rstrip(_)
rstrip(s) ==
    IF s # <<>> /\ s[Len(s)] \in Whitespace
    THEN rstrip(SubSeq(s, 1, Len(s) - 1)) ELSE s

\* str.strip()
strip(s) == rstrip(lstrip(s))

\* str.lower() of one character
lower_char(c) ==
    CASE c = "A" -> "a"
      [] c = "B" -> "b"
      [] OTHER -> c

\* str.lower()
lower(s) == [i \in 1..Len(s) |-> lower_char(s[i])]

\* urllib.parse.quote_plus of one character
quote_char(c) ==
    CASE c = " "  -> "+"
      [] c = "\t" -> "%09"
      [] c = "\n" -> "%0A"
      [] c = "\r" -> "%0D"
      [] c = ","  -> "%2C"
      [] c = ";"  -> "%3B"
      [] OTHER -> c

\* urllib.parse.quote_plus
quote_plus(s) == [i \in 1..Len(s) |-> quote_char(s[i])]

Digit(i) == <<"0", "1", "2", "3", "4", "5", "6", "7", "8", "9">>[i + 1]

-----------------------------------------------------------------------------
(* pandas.read_csv(csv_path, header=1, dtype=str, delimiter=d,             *)
(*                 on_bad_lines='skip', skipinitialspace=True)             *)

\* the list tried by load_cd_ref_data
possible_delimiters == <<",", "\t", ";">>

RECURSIVE SplitOn(_, _)
SplitOn(line, d) ==
    IF \A i \in 1..Len(line) : line[i] # d THEN <<line>>
    ELSE LET i == CHOOSE k \in 1..Len(line) :
                     line[k] = d /\ \A j \in 1..(k - 1) : line[j] # d
         IN  <<SubSeq(line, 1, i - 1)>> \o SplitOn(SubSeq(line, i + 1, Len(line)), d)

\* skipinitialspace=True: blanks (not tabs) after a delimiter are dropped
RECURSIVE SkipInitialSpace(_)
SkipInitialSpace(cell) ==
    IF cell # <<>> /\ Head(cell) = " " THEN SkipInitialSpace(Tail(cell)) ELSE cell

\* the fields of one line
ParseLine(line, d) ==
    LET cells == SplitOn(line, d)
    IN  [i \in 1..Len(cells) |-> SkipInitialSpace(cells[i])]

\* skip_blank_lines: a line of blanks and tabs holding no delimiter is dropped
BlankLine(line, d) ==
    \A i \in 1..Len(line) : line[i] \in {" ", "\t"} /\ line[i] # d

RECURSIVE NonBlankLines(_, _)
NonBlankLines(lines, d) ==
    IF lines = <<>> THEN <<>>
    ELSE IF BlankLine(Head(lines), d) THEN NonBlankLines(Tail(lines), d)
         ELSE <<Head(lines)>> \o NonBlankLines(Tail(lines), d)

\* header names: an empty one is "Unnamed: i", a repeated one gets ".k"
HeaderNames(cells) ==
    [i \in 1..Len(cells) |->
        IF cells[i] = <<>> THEN <<"Unnamed: ", Digit(i - 1)>>
        ELSE LET k == Cardinality({j \in 1..(i - 1) : cells[j] = cells[i]})
             IN  IF k = 0 THEN cells[i] ELSE cells[i] \o <<".", Digit(k)>>]

\* a line shorter than the expected width is padded with empty fields
Pad(fields, w) ==
    [i \in 1..w |-> IF i <= Len(fields) THEN fields[i] ELSE <<>>]

\* on_bad_lines='skip': after the first data line, a line with more fields
\* than the line before it is dropped; the first data line sets the width
RECURSIVE DataLines(_, _, _, _)
DataLines(lines, d, w, first) ==
    IF lines = <<>> THEN <<>>
    ELSE LET f == ParseLine(Head(lines), d)
         IN  IF Len(f) > w
             THEN IF first THEN <<f>> \o DataLines(Tail(lines), d, Len(f), FALSE)
                  ELSE DataLines(Tail(lines), d, w, FALSE)
             ELSE <<Pad(f, w)>> \o DataLines(Tail(lines), d, w, FALSE)

\* na_filter: an empty field is a missing value
NaFilter(cell) == IF cell = <<>> THEN NaN ELSE cell

\* the frame of header fields H and data lines data; extra leading fields
\* of the data are the row index
FrameOf(H, data) ==
    LET lead == IF data = <<>> THEN 0 ELSE Len(data[1]) - Len(H)
    IN  [exc     |-> "none",
         columns |-> HeaderNames(H),
         rows    |-> [r \in 1..Len(data) |->
                        [c \in 1..Len(H) |-> NaFilter(data[r][lead + c])]]]

\* header=1: the second non-blank line L[2] is the header, data follow it
ParseLines(L, H, d) == FrameOf(H, DataLines(SubSeq(L, 3, Len(L)), d, Len(H), TRUE))

ReadLines(L, d) ==
    IF Len(L) = 0
    THEN [exc |-> "EmptyDataError", columns |-> <<>>, rows |-> <<>>]
    ELSE IF Len(L) = 1
    THEN [exc |-> "ParserError", columns |-> <<>>, rows |-> <<>>]
    ELSE ParseLines(L, ParseLine(L[2], d), d)

\* the frame read with delimiter d, or the exception raised
read_csv(file, d) ==
    IF ~file.exists
    THEN [exc |-> "FileNotFoundError", columns |-> <<>>, rows |-> <<>>]
    ELSE ReadLines(NonBlankLines(file.lines, d), d)

-----------------------------------------------------------------------------
(* load_cd_ref_data *)

CD_REF == <<"CD_REF">>
NOM_LATIN == <<"NOM LATIN">>

\* the positions of a label among the column labels
ColumnsNamed(cols, name) == {i \in 1..Len(cols) : cols[i] = name}

\* DataFrame.rename(columns={first: "CD_REF", second: "NOM LATIN"}); the
\* argument is a dict, so when both keys are equal the second entry wins
RenameFirstTwo(cols) ==
    [i \in 1..Len(cols) |->
        IF cols[i] = cols[2] THEN NOM_LATIN
        ELSE IF cols[i] = cols[1] THEN CD_REF
        ELSE cols[i]]

\* one pass of the loop body for one delimiter: what the pass leaves in df
\* and whether the loop goes on, breaks, or the function returns
Renamed(renamed, rows) ==
    IF ColumnsNamed(renamed, CD_REF) # {} /\ ColumnsNamed(renamed, NOM_LATIN) # {}
    THEN [next |-> "break", msg |-> "", cols |-> renamed, rows |-> rows]
    ELSE [next |-> "continue", msg |-> "", cols |-> <<>>, rows |-> <<>>]

\* scenario 1, scenario 2, or fewer than two columns
Scenarios(actual_columns, rows) ==
    IF ColumnsNamed(actual_columns, CD_REF) # {}
       /\ ColumnsNamed(actual_columns, NOM_LATIN) # {}
    THEN [next |-> "break", msg |-> "", cols |-> actual_columns, rows |-> rows]
    ELSE IF Len(actual_columns) >= 2
    THEN Renamed(RenameFirstTwo(actual_columns), rows)
    ELSE [next |-> "continue", msg |-> "", cols |-> <<>>, rows |-> <<>>]

\* the try block and its except clauses, r being what read_csv gave
TryBlock(r) ==
    IF r.exc = "EmptyDataError"
    THEN [next |-> "return", msg |-> "vide", cols |-> <<>>, rows |-> <<>>]
    ELSE IF r.exc = "FileNotFoundError"
    THEN [next |-> "return", msg |-> "non trouve", cols |-> <<>>, rows |-> <<>>]
    ELSE IF r.exc # "none"
    THEN [next |-> "continue", msg |-> "", cols |-> <<>>, rows |-> <<>>]
    ELSE Scenarios([i \in 1..Len(r.columns) |-> strip(r.columns[i])], r.rows)

TryDelimiter(file, d) == TryBlock(read_csv(file, d))

\* what the loop leaves when it ends at delimiter d with pass result t
LoopEnd(t, d) ==
    [next |-> t.next, msg |-> t.msg, cols |-> t.cols, rows |-> t.rows,
     delimiter |-> d]

\* the for loop over possible_delimiters from position k on
RECURSIVE DelimiterLoop(_, _)
DelimiterLoop(file, k) ==
    IF k > Len(possible_delimiters)
    THEN [next |-> "exhausted", msg |-> "", cols |-> <<>>, rows |-> <<>>,
          delimiter |-> ""]
    ELSE IF TryDelimiter(file, possible_delimiters[k]).next = "continue"
    THEN DelimiterLoop(file, k + 1)
    ELSE LoopEnd(TryDelimiter(file, possible_delimiters[k]), possible_delimiters[k])

\* Series.astype(str)
AsTypeStr(cell) == IF cell = NaN THEN NanText ELSE cell

NoFrame(msg) == [kind |-> "None", rows |-> <<>>, msg |-> msg]

\* the part after the loop: typing, normalised column, cleaning
CleanFrame(cols, rows) ==
    LET cdp == ColumnsNamed(cols, CD_REF)
        nlp == ColumnsNamed(cols, NOM_LATIN)
    IN  IF rows = <<>> THEN NoFrame("impossible")
        ELSE IF Cardinality(cdp) # 1 \/ Cardinality(nlp) # 1
        \* a repeated label makes df["..."] a frame: .str raises AttributeError
        THEN [kind |-> "raised", rows |-> <<>>, msg |-> "AttributeError"]
        ELSE LET c == CHOOSE i \in cdp : TRUE
                 n == CHOOSE i \in nlp : TRUE
                 typed == [r \in 1..Len(rows) |->
                             [index                |-> r - 1,
                              CD_REF               |-> AsTypeStr(rows[r][c]),
                              NOM_LATIN            |-> AsTypeStr(rows[r][n]),
                              NOM_LATIN_normalized |-> lower(strip(AsTypeStr(rows[r][n])))]]
                 dropna == SelectSeq(typed,
                             LAMBDA row : row.CD_REF # NaN /\ row.NOM_LATIN # NaN)
                 nocd   == SelectSeq(dropna, LAMBDA row : strip(row.CD_REF) # <<>>)
                 noname == SelectSeq(nocd, LAMBDA row : strip(row.NOM_LATIN) # <<>>)
             IN  IF noname # <<>>
                 THEN [kind |-> "DataFrame", rows |-> noname, msg |-> ""]
                 ELSE NoFrame("apres nettoyage")

\* the function's result, l being what the loop left
AfterLoop(l) ==
    IF l.next = "return" THEN NoFrame(l.msg)
    ELSE IF l.next = "exhausted" THEN NoFrame("impossible")
    ELSE CleanFrame(l.cols, l.rows)

load_cd_ref_data(file) == AfterLoop(DelimiterLoop(file, 1))

-----------------------------------------------------------------------------
(* get_cd_ref_from_csv and the URL builders that use it *)

\* get_cd_ref_from_csv comparing the name without trimming it
get_cd_ref_from_csv_untrimmed(species_name) ==
    IF TAXREF_DATA.kind = "None" THEN None
    ELSE LET normalized_species_name == lower(species_name)
             match == SelectSeq(TAXREF_DATA.rows,
                        LAMBDA row : row.NOM_LATIN_normalized = normalized_species_name)
         IN  IF match # <<>> THEN match[1].CD_REF ELSE None

get_cd_ref_from_csv(species_name) ==
    IF TAXREF_DATA.kind = "None" THEN None
    ELSE LET normalized_species_name == lower(strip(species_name))
             match == SelectSeq(TAXREF_DATA.rows,
                        LAMBDA row : row.NOM_LATIN_normalized = normalized_species_name)
         IN  IF match # <<>> THEN match[1].CD_REF ELSE None

\* truth value of an Optional[str]
Truthy(s) == s # None /\ s # <<>>

\* the src of the iframe in the HTML returned by openobs_embed
openobs_embed(species) ==
    LET cd_ref == get_cd_ref_from_csv(species)
    IN  IF Truthy(cd_ref)
        THEN <<"https://openobs.mnhn.fr/redirect/inpn/taxa/">> \o cd_ref \o <<"?view=map">>
        ELSE <<"https://openobs.mnhn.fr/map.html?sp=">> \o quote_plus(species)

biodivaura_url(species) ==
    LET cd_ref == get_cd_ref_from_csv(species)
    IN  IF Truthy(cd_ref)
        THEN <<"https://atlas.biodiversite-auvergne-rhone-alpes.fr/espece/">> \o cd_ref
        ELSE <<"https://atlas.biodiversite-auvergne-rhone-alpes.fr/recherche?keyword=">>
             \o quote_plus(species)

\* inpn_species_url putting the raw name in the search URL
inpn_species_url_unquoted(species) ==
    LET cd_ref == get_cd_ref_from_csv(species)
    IN  IF Truthy(cd_ref)
        THEN <<"https://inpn.mnhn.fr/espece/cd_nom/">> \o cd_ref
        ELSE <<"https://inpn.mnhn.fr/collTerr/nomenclature/espece/recherche?texteRecherche=">>
             \o species

inpn_species_url(species) ==
    LET cd_ref == get_cd_ref_from_csv(species)
    IN  IF Truthy(cd_ref)
        THEN <<"https://inpn.mnhn.fr/espece/cd_nom/">> \o cd_ref
        ELSE <<"https://inpn.mnhn.fr/collTerr/nomenclature/espece/recherche?texteRecherche=">>
             \o quote_plus(species)

-----------------------------------------------------------------------------
(* Inputs of the CSV look-up: files and species names *)

SeqsUpTo(S, n) == UNION {[1..k -> S] : k \in 0..n}

MaxHeaderLen == 5
MaxRows == 2

HeaderTokens == {",", "\t", ";", "CD_REF", "NOM LATIN", "x"}

\* a data line that has two fields under each of the three delimiters
SampleRow == <<"1", ",", "a", ";", "2", "\t", "b">>

\* a file with an arbitrary second line
HeaderFile(h) == [exists |-> TRUE, lines |-> <<(<<"t">>), h, SampleRow>>]

CdCells == {<<>>, <<"1">>, <<"2">>, <<"\t">>}
NameCells == {<<>>, <<"a">>, <<"A", " ">>, <<"a", "b">>}

DataRows ==
    {cd \o <<",">> \o nm : cd \in CdCells, nm \in NameCells}
    \cup {<<"1">>, <<"1", ",", "a", ",", "b">>}

DataHeaders ==
    {<<"CD_REF", ",", "NOM LATIN">>, <<"NOM LATIN", ",", " ", "CD_REF">>,
     <<"CD_REF", ";", "NOM LATIN">>}

\* a file with a usual header and arbitrary data lines
DataFile(h, rows) == [exists |-> TRUE, lines |-> <<(<<"t">>), h>> \o rows]

\* no file, an empty file, a file of one line
DegenerateFiles ==
    {[exists |-> FALSE, lines |-> <<>>],
     [exists |-> TRUE, lines |-> <<>>],
     [exists |-> TRUE, lines |-> <<(<<"t">>)>>]}

QueryNames == {<<"a">>, <<" ", "A">>, <<"a", "b">>, <<"b">>, <<"a", " ">>}

\* TAXREF_DATA before the module-level call of load_cd_ref_data
Unloaded == [kind |-> "unset", rows |-> <<>>, msg |-> ""]

InitCsv ==
    /\ \/ csv_file \in DegenerateFiles
       \/ \E h \in SeqsUpTo(HeaderTokens, MaxHeaderLen) : csv_file = HeaderFile(h)
       \/ \E h \in DataHeaders, rows \in SeqsUpTo(DataRows, MaxRows) :
              csv_file = DataFile(h, rows)
    /\ TAXREF_DATA = Unloaded
    /\ csv_pc = "start"
    /\ q_species = None
    /\ q_cd_ref = None
    /\ q_openobs = None
    /\ q_biodiv = None
    /\ q_inpn = None
    /\ DEBUG_MODE = FALSE
    /\ SearchOff
    /\ TelaOff
    /\ AppOff

\* TAXREF_DATA = load_cd_ref_data(CD_REF_CSV_PATH); an exception ends the script
LoadCsv ==
    /\ csv_pc = "start"
    /\ TAXREF_DATA' = load_cd_ref_data(csv_file)
    /\ csv_pc' = IF TAXREF_DATA'.kind = "raised" THEN "crashed" ELSE "loaded"
    /\ UNCHANGED <<csv_file, q_species, q_cd_ref, q_openobs, q_biodiv, q_inpn>>
    /\ UNCHANGED <<DEBUG_MODE, search_vars, tela_vars, app_vars>>

\* the look-ups of one species that read TAXREF_DATA
LookupSpecies(sp) ==
    /\ csv_pc = "loaded"
    /\ q_species' = sp
    /\ q_cd_ref' = get_cd_ref_from_csv(sp)
    /\ q_openobs' = openobs_embed(sp)
    /\ q_biodiv' = biodivaura_url(sp)
    /\ q_inpn' = inpn_species_url(sp)
    /\ UNCHANGED <<csv_file, TAXREF_DATA, csv_pc>>
    /\ UNCHANGED <<DEBUG_MODE, search_vars, tela_vars, app_vars>>

NextCsv ==
    \/ LoadCsv
    \/ \E sp \in QueryNames : LookupSpecies(sp)

SpecCsv == InitCsv /\ [][NextCsv]_vars

-----------------------------------------------------------------------------
(* Properties of the CSV look-up, checked under SpecCsv *)

StrippedColumns(file, d) ==
    LET r == read_csv(file, d)
    IN  [i \in 1..Len(r.columns) |-> strip(r.columns[i])]

\* the delimiters under which the header line names both columns
NamingDelimiters(file) ==
    {k \in 1..Len(possible_delimiters) :
        LET cols == StrippedColumns(file, possible_delimiters[k])
        IN  /\ ColumnsNamed(cols, CD_REF) # {}
            /\ ColumnsNamed(cols, NOM_LATIN) # {}}

\* C4: a file whose header names CD_REF and NOM LATIN under one of the three
\* delimiters is loaded with those two columns, read under such a delimiter.
C4_NamedHeaderLoaded ==
    (csv_pc # "start" /\ NamingDelimiters(csv_file) # {}) =>
        \E k \in NamingDelimiters(csv_file) :
            TAXREF_DATA = CleanFrame(StrippedColumns(csv_file, possible_delimiters[k]),
                                     read_csv(csv_file, possible_delimiters[k]).rows)

\* the cell of the frame read from the file that a row of the table comes from
SourceCell(row, name) ==
    LET l == DelimiterLoop(csv_file, 1)
        c == CHOOSE i \in ColumnsNamed(l.cols, name) : TRUE
    IN  l.rows[row.index + 1][c]

\* C10: every row of the returned table comes from a line of the CSV whose
\* CD_REF and NOM LATIN cells are neither missing nor blank (lines with a
\* missing or empty cell are removed by the cleaning).
C10_NoMissingCell ==
    TAXREF_DATA.kind = "DataFrame" =>
        \A i \in 1..Len(TAXREF_DATA.rows) :
            /\ SourceCell(TAXREF_DATA.rows[i], CD_REF) # NaN
            /\ SourceCell(TAXREF_DATA.rows[i], NOM_LATIN) # NaN
            /\ strip(TAXREF_DATA.rows[i].CD_REF) # <<>>
            /\ strip(TAXREF_DATA.rows[i].NOM_LATIN) # <<>>

\* the rows of the table whose NOM LATIN is the name, both trimmed and lower-cased
Hits(name) ==
    {i \in 1..Len(TAXREF_DATA.rows) :
        lower(strip(TAXREF_DATA.rows[i].NOM_LATIN)) = lower(strip(name))}

\* C5: get_cd_ref_from_csv returns None when the table was not loaded or no
\* row has the name as its NOM LATIN (both trimmed and lower-cased, compared
\* whole); otherwise the CD_REF of the first such row, in file order.
C5_FirstExactMatch ==
    q_species # None =>
        /\ \A i, j \in 1..Len(TAXREF_DATA.rows) :
              i < j => TAXREF_DATA.rows[i].index < TAXREF_DATA.rows[j].index
        /\ IF TAXREF_DATA.kind = "None" \/ Hits(q_species) = {}
           THEN q_cd_ref = None
           ELSE \E i \in Hits(q_species) :
                   /\ \A j \in Hits(q_species) : i <= j
                   /\ q_cd_ref = TAXREF_DATA.rows[i].CD_REF

\* a look-up that hit two rows with different CD_REF, through a name that
\* differs from the stored text by case and surrounding blanks
C5_Witness ==
    /\ q_species # None
    /\ q_cd_ref # None
    /\ \E i, j \in Hits(q_species) :
          /\ i < j
          /\ TAXREF_DATA.rows[i].CD_REF # TAXREF_DATA.rows[j].CD_REF
          /\ {TAXREF_DATA.rows[i].CD_REF, TAXREF_DATA.rows[j].CD_REF} = {<<"1">>, <<"2">>}
          /\ TAXREF_DATA.rows[i].NOM_LATIN # q_species

\* C6: the three builders give the identifier form of their URL, holding the
\* CD_REF, when get_cd_ref_from_csv returns one, and otherwise the search
\* form holding the URL-encoded name; all three take the same form.
C6_SameForm ==
    q_species # None =>
        IF q_cd_ref # None
        THEN /\ q_openobs = <<"https://openobs.mnhn.fr/redirect/inpn/taxa/">>
                            \o q_cd_ref \o <<"?view=map">>
             /\ q_biodiv = <<"https://atlas.biodiversite-auvergne-rhone-alpes.fr/espece/">>
                           \o q_cd_ref
             /\ q_inpn = <<"https://inpn.mnhn.fr/espece/cd_nom/">> \o q_cd_ref
        ELSE /\ q_openobs = <<"https://openobs.mnhn.fr/map.html?sp=">>
                            \o quote_plus(q_species)
             /\ q_biodiv =
                  <<"https://atlas.biodiversite-auvergne-rhone-alpes.fr/recherche?keyword=">>
                  \o quote_plus(q_species)
             /\ q_inpn =
                  <<"https://inpn.mnhn.fr/collTerr/nomenclature/espece/recherche?texteRecherche=">>
                  \o quote_plus(q_species)
             /\ \A i \in 1..Len(q_inpn) : q_inpn[i] \notin Whitespace

\* a species found in the table, and the three identifier URLs built
C6_Witness ==
    /\ q_species # None
    /\ q_cd_ref \in {<<"1">>, <<"2">>}
    /\ q_inpn = <<"https://inpn.mnhn.fr/espece/cd_nom/">> \o q_cd_ref

-----------------------------------------------------------------------------
(* Exceptions and the requests library *)

\* the classes an exception is an instance of
Classes(exc) ==
    CASE exc = "RequestException" -> {"RequestException", "Exception"}
      [] exc = "JSONDecodeError"  -> {"JSONDecodeError", "RequestException",
                                      "ValueError", "Exception"}
      [] OTHER -> {exc, "Exception"}

\* an except clause for class cls catches exc
Catches(cls, exc) == exc # "none" /\ cls \in Classes(exc)

\* URLs are token sequences; the first token is scheme, host and root "/"
base_url == <<"https://www.florealpes.com/">>

\* urljoin(base, rel) for a relative reference and a base in the site root
urljoin(base, rel) == <<base[1]>> \o rel

\* the URL requests builds for session.get(search_url, params={"chaine": species})
SearchUrl(species) ==
    urljoin(base_url, <<"recherche", ".php">>) \o <<"?chaine=">> \o quote_plus(species)

Contains(url, token) == \E i \in 1..Len(url) : url[i] = token

-----------------------------------------------------------------------------
(* florealpes_search                                                       *)
(* An answer to the search request is [exc, url, notice, container,        *)
(* tables, links]: the final URL, the phrase shown on the page, whether    *)
(* "#principal div.conteneur_tab" exists, the tables inside it (with or    *)
(* without class "resultats") and the <a> elements of the page in document *)
(* order.  A link is [fiche, in_symb, table]: its href starts with         *)
(* "fiche_", it is a child of a td.symb cell, it lies in a row of the      *)
(* table-th table of the container (0: elsewhere).                         *)

no_results_messages ==
    {"aucun resultat a votre requete",
     "pas de resultats trouves pour cette recherche",
     "aucun taxon ne correspond a votre recherche"}

\* results_response.text.lower()
page_text_lower(resp) ==
    IF resp.notice = "Aucun resultat a votre requete"
    THEN "aucun resultat a votre requete"
    ELSE resp.notice

\* the href attribute of the i-th link of the page
Href(resp, i) ==
    IF resp.links[i].fiche THEN <<"fiche_", Digit(i), ".php">>
    ELSE <<"autre_", Digit(i), ".php">>

Min(S) == CHOOSE x \in S : \A y \in S : x <= y

\* results_table: "table.resultats" of the container, else its first table
ResultsTable(resp) ==
    IF ~resp.container THEN 0
    ELSE LET classed == {k \in 1..Len(resp.tables) : resp.tables[k].resultats}
         IN  IF classed # {} THEN Min(classed)
             ELSE IF Len(resp.tables) > 0 THEN 1
             ELSE 0

\* link_tag: the "td.symb > a[href^='fiche_']" of the first row that has one
LinkTag(resp) ==
    LET t == ResultsTable(resp)
        found == {i \in 1..Len(resp.links) :
                    /\ resp.links[i].table = t
                    /\ resp.links[i].in_symb
                    /\ resp.links[i].fiche}
    IN  IF t = 0 \/ found = {} THEN 0 ELSE Min(found)

\* soup.select_one("a[href^='fiche_']")
GenericLinkTag(resp) ==
    LET found == {i \in 1..Len(resp.links) : resp.links[i].fiche}
    IN  IF found = {} THEN 0 ELSE Min(found)

\* ReadResults trying the first 'fiche_' link of the page before the final URL
ReadResults_link_before_url(resp) ==
    IF page_text_lower(resp) \in no_results_messages
    THEN [ret |-> None, msgs |-> {"FloreAlpes: aucun resultat"}]
    ELSE IF LinkTag(resp) # 0
    THEN [ret |-> urljoin(resp.url, Href(resp, LinkTag(resp))), msgs |-> {}]
    ELSE IF GenericLinkTag(resp) # 0
    THEN [ret |-> urljoin(resp.url, Href(resp, GenericLinkTag(resp))),
          msgs |-> {"FloreAlpes: fallback 2"}]
    ELSE IF Contains(resp.url, "fiche_") /\ Contains(resp.url, ".php")
    THEN [ret |-> resp.url, msgs |-> {"FloreAlpes: fallback 1"}]
    ELSE [ret |-> None, msgs |-> {"FloreAlpes: lien introuvable"}]

\* the part of florealpes_search that reads the results page
ReadResults(resp) ==
    IF page_text_lower(resp) \in no_results_messages
    THEN [ret |-> None, msgs |-> {"FloreAlpes: aucun resultat"}]
    ELSE IF LinkTag(resp) # 0
    THEN [ret |-> urljoin(resp.url, Href(resp, LinkTag(resp))), msgs |-> {}]
    ELSE IF Contains(resp.url, "fiche_") /\ Contains(resp.url, ".php")
    THEN [ret |-> resp.url, msgs |-> {"FloreAlpes: fallback 1"}]
    ELSE IF GenericLinkTag(resp) # 0
    THEN [ret |-> urljoin(resp.url, Href(resp, GenericLinkTag(resp))),
          msgs |-> {"FloreAlpes: fallback 2"}]
    ELSE [ret |-> None, msgs |-> {"FloreAlpes: lien introuvable"}]

\* the exception classes caught around the home page request, and around
\* the whole body
HomeHandlers == {"RequestException"}
SearchHandlers == {"RequestException", "Exception"}

\* florealpes_search(species) when the home page request ends as home and
\* the search request is answered by resp; reqs lists the requests sent
florealpes_search(species, home, resp) ==
    LET home_req   == [url |-> base_url, outcome |-> home]
        search_req == [url |-> SearchUrl(species), outcome |-> resp.exc]
        home_caught == \E cls \in HomeHandlers : Catches(cls, home)
        home_msgs  == IF home_caught /\ DEBUG_MODE
                      THEN {"DEBUG FloreAlpes: page d'accueil non chargee"} ELSE {}
    IN  IF home # "none" /\ ~home_caught
        \* the exception leaves the inner try before the search is sent
        THEN IF \E cls \in SearchHandlers : Catches(cls, home)
             THEN [ret |-> None, exc |-> "none", reqs |-> <<home_req>>,
                   msgs |-> {"FloreAlpes: erreur inattendue"}]
             ELSE [ret |-> None, exc |-> home, reqs |-> <<home_req>>, msgs |-> {}]
        ELSE IF resp.exc # "none"
        THEN IF Catches("RequestException", resp.exc)
                /\ "RequestException" \in SearchHandlers
             THEN [ret |-> None, exc |-> "none", reqs |-> <<home_req, search_req>>,
                   msgs |-> home_msgs \cup {"FloreAlpes: erreur de requete"}]
             ELSE IF \E cls \in SearchHandlers : Catches(cls, resp.exc)
             THEN [ret |-> None, exc |-> "none", reqs |-> <<home_req, search_req>>,
                   msgs |-> home_msgs \cup {"FloreAlpes: erreur inattendue"}]
             ELSE [ret |-> None, exc |-> resp.exc, reqs |-> <<home_req, search_req>>,
                   msgs |-> home_msgs]
        ELSE LET r == ReadResults(resp)
             IN  [ret |-> r.ret, exc |-> "none", reqs |-> <<home_req, search_req>>,
                  msgs |-> home_msgs \cup r.msgs]

-----------------------------------------------------------------------------
(* florealpes_search on the answers the site can give *)

MaxTables == 2
MaxLinks == 2

Notices ==
    no_results_messages \cup {"", "Aucun resultat a votre requete", "12 resultats"}

FinalUrls(species) ==
    {SearchUrl(species),
     urljoin(base_url, <<"fiche_", "9", ".php">>),
     urljoin(base_url, <<"fiche_", "9">>)}

Links(nt) == SeqsUpTo([fiche : BOOLEAN, in_symb : BOOLEAN, table : 0..nt], MaxLinks)

SearchFailure == [exc |-> "RequestException"]

\* a page of the site: tables exist only inside the container
SearchPage(u, n, c, ts, ls) ==
    [exc |-> "none", url |-> u, notice |-> n, container |-> c,
     tables |-> ts, links |-> ls]

SearchSpecies == {<<"a", " ", "b">>}

InitSearch ==
    /\ s_species \in SearchSpecies
    /\ s_home \in {"none", "RequestException"}
    /\ \/ s_search = SearchFailure
       \/ \E c \in BOOLEAN :
          \E ts \in (IF c THEN SeqsUpTo([resultats : BOOLEAN], MaxTables) ELSE {<<>>}) :
          \E ls \in Links(Len(ts)), u \in FinalUrls(s_species), n \in Notices :
              s_search = SearchPage(u, n, c, ts, ls)
    /\ s_out = NotCalled
    /\ DEBUG_MODE = FALSE
    /\ CsvOff
    /\ TelaOff
    /\ AppOff

RunSearch ==
    /\ s_out = NotCalled
    /\ s_out' = florealpes_search(s_species, s_home, s_search)
    /\ UNCHANGED <<s_species, s_home, s_search, csv_vars, DEBUG_MODE, tela_vars, app_vars>>

NextSearch == RunSearch

SpecSearch == InitSearch /\ [][NextSearch]_vars

\* the links of the results table that sit in a td.symb cell, and all the
\* 'fiche_' links of the page
SymbFicheLinks ==
    {i \in 1..Len(s_search.links) :
        /\ ResultsTable(s_search) # 0
        /\ s_search.links[i].table = ResultsTable(s_search)
        /\ s_search.links[i].in_symb
        /\ s_search.links[i].fiche}

AllFicheLinks == {i \in 1..Len(s_search.links) : s_search.links[i].fiche}

\* the page shows a no-results message (in any letter case)
ShowsNoResults ==
    s_search.notice \in no_results_messages \cup {"Aucun resultat a votre requete"}

\* C3: on a results page, florealpes_search returns None when the page shows
\* a no-results message; otherwise the first 'fiche_' link of a td.symb cell
\* of the results table, else the final URL if it holds 'fiche_' and '.php',
\* else the first 'fiche_' link of the page, else None.
C3_Priority ==
    (s_out # NotCalled /\ s_search.exc = "none") =>
        /\ s_out.exc = "none"
        /\ s_out.ret =
             IF ShowsNoResults THEN None
             ELSE IF SymbFicheLinks # {}
             THEN <<s_search.url[1], "fiche_", Digit(Min(SymbFicheLinks)), ".php">>
             ELSE IF Contains(s_search.url, "fiche_") /\ Contains(s_search.url, ".php")
             THEN s_search.url
             ELSE IF AllFicheLinks # {}
             THEN <<s_search.url[1], "fiche_", Digit(Min(AllFicheLinks)), ".php">>
             ELSE None

\* a page whose first 'fiche_' link is not the one of the results table, the
\* final URL being itself a fiche: the table link was returned
C3_Witness ==
    /\ s_out # NotCalled
    /\ s_search.exc = "none"
    /\ ~ShowsNoResults
    /\ SymbFicheLinks # {}
    /\ Min(AllFicheLinks) < Min(SymbFicheLinks)
    /\ Contains(s_search.url, "fiche_") /\ Contains(s_search.url, ".php")
    /\ s_out.ret = <<s_search.url[1], "fiche_", Digit(Min(SymbFicheLinks)), ".php">>

-----------------------------------------------------------------------------
(* tela_botanica_url                                                       *)
(* An answer of the API is [exc, body, data]: the exception of the request *)
(* or of raise_for_status, whether the body is JSON, and the decoded value *)
(* [type, items]; an item of a list is [type, nom_sci, num_nomen].         *)

\* the request sent: names:search in exact mode
TelaApiUrl(species) ==
    <<"https://api.tela-botanica.org/service:eflore:0.1/", "names:search",
      "?mode=", "exact", "&taxon=">> \o quote_plus(species)

\* truth value of a decoded JSON value
JsonTruthy(data) ==
    CASE data.type = "null" -> FALSE
      [] data.type \in {"list", "dict"} -> data.items # <<>>
      [] OTHER -> TRUE

\* truth value of the num_nomen of an entry ("absent": .get gives None)
NumNomenTruthy(nn) == nn \notin {"absent", "int 0"}

SyntheseUrl(nn) == <<"https://www.tela-botanica.org/bdtfx-nn-", nn, "-synthese">>

\* the exception classes of the except clauses, in order
TelaHandlers == <<"RequestException", "ValueError">>

\* the message of the first except clause that catches exc, "" if none does
TelaCaught(exc) ==
    LET hit == {k \in 1..Len(TelaHandlers) : Catches(TelaHandlers[k], exc)}
    IN  IF hit = {} THEN ""
        ELSE IF TelaHandlers[Min(hit)] = "RequestException"
        THEN "Tela Botanica: erreur API eFlore"
        ELSE "Tela Botanica: erreur JSON API eFlore"

\* ReadTelaData taking the last entry of the list instead of the first
ReadTelaData_last_entry(data) ==
    IF ~JsonTruthy(data) THEN [ret |-> None, msgs |-> {}]
    ELSE IF data.type = "list" /\ Len(data.items) > 0 /\ data.items[1].type = "dict"
    THEN LET nn == data.items[Len(data.items)].num_nomen
         IN  IF NumNomenTruthy(nn) THEN [ret |-> SyntheseUrl(nn), msgs |-> {}]
             ELSE [ret |-> None, msgs |-> {}]
    ELSE [ret |-> None, msgs |-> {"Tela Botanica: reponse inattendue"}]

\* what the try block does with the decoded data
ReadTelaData(data) ==
    IF ~JsonTruthy(data) THEN [ret |-> None, msgs |-> {}]
    ELSE IF data.type = "list" /\ Len(data.items) > 0 /\ data.items[1].type = "dict"
    THEN LET nn == data.items[1].num_nomen
         IN  IF NumNomenTruthy(nn) THEN [ret |-> SyntheseUrl(nn), msgs |-> {}]
             ELSE [ret |-> None, msgs |-> {}]
    ELSE [ret |-> None, msgs |-> {"Tela Botanica: reponse inattendue"}]

tela_botanica_url(species, resp) ==
    LET raised == IF resp.exc # "none" THEN resp.exc
                  ELSE IF resp.body # "json" THEN "JSONDecodeError"
                  ELSE "none"
        req == [url |-> TelaApiUrl(species), outcome |-> raised]
    IN  IF raised # "none"
        THEN IF TelaCaught(raised) # ""
             THEN [ret |-> None, exc |-> "none", reqs |-> <<req>>,
                   msgs |-> {TelaCaught(raised)}]
             ELSE [ret |-> None, exc |-> raised, reqs |-> <<req>>, msgs |-> {}]
        ELSE LET r == ReadTelaData(resp.data)
             IN  [ret |-> r.ret, exc |-> "none", reqs |-> <<req>>, msgs |-> r.msgs]

MaxEntries == 2

NumNomens == {"absent", "int 0", "101", "102"}

OtherName == <<"a", "b">>

TelaEntries(species) ==
    [type : {"dict"}, nom_sci : {species, OtherName}, num_nomen : NumNomens]
    \cup {[type |-> "string", nom_sci |-> <<>>, num_nomen |-> "absent"]}

TelaFailure == [exc |-> "RequestException"]

TelaAnswer(body, type, items) ==
    [exc |-> "none", body |-> body, data |-> [type |-> type, items |-> items]]

TelaSpecies == {<<"a">>, <<"a", " ", "a">>}

InitTela ==
    /\ t_species \in TelaSpecies
    /\ \/ t_response = TelaFailure
       \/ t_response = TelaAnswer("invalid", "null", <<>>)
       \/ t_response = TelaAnswer("json", "null", <<>>)
       \/ t_response = TelaAnswer("json", "string", <<>>)
       \/ \E type \in {"list", "dict"} :
          \E items \in SeqsUpTo(TelaEntries(t_species), MaxEntries) :
              t_response = TelaAnswer("json", type, items)
    /\ t_out = NotCalled
    /\ DEBUG_MODE = FALSE
    /\ CsvOff
    /\ SearchOff
    /\ AppOff

RunTela ==
    /\ t_out = NotCalled
    /\ t_out' = tela_botanica_url(t_species, t_response)
    /\ UNCHANGED <<t_species, t_response, csv_vars, DEBUG_MODE, search_vars, app_vars>>

NextTela == RunTela

SpecTela == InitTela /\ [][NextTela]_vars

\* the answer is a JSON list
TelaList == t_response.exc = "none" /\ t_response.body = "json"
            /\ t_response.data.type = "list"

\* the entries of the answer whose name is exactly the species
ExactEntries ==
    {i \in 1..Len(t_response.data.items) :
        /\ t_response.data.items[i].type = "dict"
        /\ t_response.data.items[i].nom_sci = t_species}

\* C8 as stated: the URL is built from the num_nomen of the entry that
\* matches the species name exactly and, when no entry does, from the first
\* entry returned by the API.
C8_ExactThenFirst ==
    (t_out # NotCalled /\ TelaList /\ t_response.data.items # <<>>
     /\ \A i \in 1..Len(t_response.data.items) :
           /\ t_response.data.items[i].type = "dict"
           /\ NumNomenTruthy(t_response.data.items[i].num_nomen)) =>
        t_out.ret = SyntheseUrl(
            t_response.data.items[IF ExactEntries # {} THEN Min(ExactEntries)
                                  ELSE 1].num_nomen)

\* C8 amended: tela_botanica_url sends one request, in exact mode, for the
\* URL-encoded name and builds the URL from the num_nomen of the first entry
\* of the returned list, whatever the name of that entry; it returns None
\* when the request or the decoding fails, the answer is empty or not a list
\* of objects, or the first entry has no num_nomen.
C8_FirstEntryOfExactQuery ==
    t_out # NotCalled =>
        /\ Len(t_out.reqs) = 1
        /\ Contains(t_out.reqs[1].url, "exact")
        /\ \E k \in 1..Len(t_out.reqs[1].url) :
              SubSeq(t_out.reqs[1].url, k, Len(t_out.reqs[1].url)) = quote_plus(t_species)
        /\ \A k \in 1..Len(t_out.reqs[1].url) : t_out.reqs[1].url[k] \notin Whitespace
        /\ t_out.exc = "none"
        /\ t_out.ret =
             IF /\ TelaList
                /\ t_response.data.items # <<>>
                /\ t_response.data.items[1].type = "dict"
                /\ t_response.data.items[1].num_nomen \in {"101", "102"}
             THEN <<"https://www.tela-botanica.org/bdtfx-nn-",
                    t_response.data.items[1].num_nomen, "-synthese">>
             ELSE None

\* the first entry is not the species, a later one is: the first was used
C8_Witness ==
    /\ t_out # NotCalled
    /\ TelaList
    /\ ExactEntries # {}
    /\ 1 \notin ExactEntries
    /\ t_response.data.items[1].num_nomen = "101"
    /\ t_response.data.items[Min(ExactEntries)].num_nomen = "102"
    /\ t_out.ret = SyntheseUrl("101")

-----------------------------------------------------------------------------
(* fetch_html and scrape_florealpes                                        *)
(* A parsed page is [kind, images, tables]: its <img> elements and its     *)
(* <table> elements in document order.  An image is [jpg, features,        *)
(* width]: its src ends in ".jpg", the contexts of the first seven         *)
(* selectors it stands in, its width attribute (NoAttr if none), a text of *)
(* one-token strings in which "px" is one token.  A                        *)
(* table is [fiche, keywords, rows]: it has class "fiche", the number of   *)
(* the eight keywords in its text, its rows [cells, attribute, value].     *)

NoSoup == [kind |-> "None", images |-> <<>>, tables |-> <<>>]

\* img_tag.get('width', ...) of an element without the attribute
NoAttr == <<"<absent>">>

\* the exception classes caught by fetch_html
\* fetch_html without its except clause
FetchHandlers_none == {}

FetchHandlers == {"RequestException"}

\* fetch_html(url) when the request is answered by resp = [exc, soup]
fetch_html(url, resp) ==
    LET req == [url |-> url, outcome |-> resp.exc]
    IN  IF resp.exc = "none"
        THEN [ret |-> resp.soup, exc |-> "none", reqs |-> <<req>>, msgs |-> {}]
        ELSE IF \E cls \in FetchHandlers : Catches(cls, resp.exc)
        THEN [ret |-> NoSoup, exc |-> "none", reqs |-> <<req>>,
              msgs |-> {"Erreur lors du telechargement"}]
        ELSE [ret |-> NoSoup, exc |-> resp.exc, reqs |-> <<req>>, msgs |-> {}]

\* the number of entries of image_selectors
NumSelectors == 9

\* the image matches the k-th selector
MatchesSelector(img, k) ==
    /\ img.jpg
    /\ CASE k <= 7 -> k \in img.features
         [] k = 8  -> img.width # NoAttr
         [] OTHER  -> TRUE

\* str.replace('px', ''): every occurrence is removed
replace_px(s) == SelectSeq(s, LAMBDA c : c # "px")

IsDigit(c) == \E d \in 0..9 : Digit(d) = c

\* int(s) of a text of decimal digits
RECURSIVE int(_)
int(s) ==
    IF s = <<>> THEN 0
    ELSE 10 * int(SubSeq(s, 1, Len(s) - 1))
         + (CHOOSE d \in 0..9 : Digit(d) = s[Len(s)])

\* int(s) raises ValueError unless s is a non-empty text of digits
ParseInt(s) ==
    IF s # <<>> /\ \A i \in 1..Len(s) : IsDigit(s[i])
    THEN [ok |-> TRUE, val |-> int(s)]
    ELSE [ok |-> FALSE, val |-> 0]

\* the width read without removing 'px'
WidthInt_keep_px(w) ==
    ParseInt(IF w = NoAttr THEN <<"9", "9", "9", "9">> ELSE w)

\* int(str(width_attr).replace('px', '')), with default '9999'
WidthInt(w) ==
    ParseInt(replace_px(IF w = NoAttr THEN <<"9", "9", "9", "9">> ELSE w))

ImgSrc(i) == <<"Photos/", Digit(i), ".jpg">>

\* the loop over image_selectors from the k-th on
RECURSIVE ImageScan(_, _, _)
ImageScan(url, soup, k) ==
    IF k > NumSelectors THEN None
    ELSE LET m == {i \in 1..Len(soup.images) : MatchesSelector(soup.images[i], k)}
         IN  IF m = {} THEN ImageScan(url, soup, k + 1)
             ELSE LET w == WidthInt(soup.images[Min(m)].width)
                  IN  IF ~w.ok \/ w.val > 50 THEN urljoin(url, ImgSrc(Min(m)))
                      ELSE ImageScan(url, soup, k + 1)

\* the first table that is a table.fiche or has two keywords and a row of two
\* cells, whichever comes first
CharacteristicsTable_first_candidate(soup) ==
    LET cand == {i \in 1..Len(soup.tables) :
                    \/ soup.tables[i].fiche
                    \/ /\ soup.tables[i].keywords >= 2
                       /\ \E r \in 1..Len(soup.tables[i].rows) :
                             soup.tables[i].rows[r].cells = 2}
    IN  IF cand # {} THEN Min(cand) ELSE 0

\* tbl: the first table.fiche, else the first table with two keywords and a
\* row of two cells
CharacteristicsTable(soup) ==
    LET fiche == {i \in 1..Len(soup.tables) : soup.tables[i].fiche}
        alt   == {i \in 1..Len(soup.tables) :
                    /\ soup.tables[i].keywords >= 2
                    /\ \E r \in 1..Len(soup.tables[i].rows) :
                          soup.tables[i].rows[r].cells = 2}
    IN  IF fiche # {} THEN Min(fiche)
        ELSE IF alt # {} THEN Min(alt)
        ELSE 0

\* data_tbl
DataTable(soup) ==
    LET t == CharacteristicsTable(soup)
    IN  IF t = 0 THEN NoTable
        ELSE LET kept == SelectSeq(soup.tables[t].rows,
                           LAMBDA tr : tr.cells = 2 /\ strip(tr.attribute) # <<>>)
                 rows == [r \in 1..Len(kept) |->
                            [Attribut |-> strip(kept[r].attribute),
                             Valeur   |-> strip(kept[r].value)]]
             IN  IF rows = <<>> THEN NoTable
                 ELSE [kind |-> "DataFrame", rows |-> rows]

\* scrape_florealpes(url), soup being what fetch_html(url) returned
scrape_florealpes(url, soup) ==
    IF soup.kind = "None" THEN [img |-> None, tbl |-> NoTable]
    ELSE [img |-> ImageScan(url, soup, 1), tbl |-> DataTable(soup)]

infoflora_url(species) ==
    <<"https://www.infoflora.ch/fr/flore/">>
    \o [i \in 1..Len(species) |->
          IF lower_char(species[i]) = " " THEN "-" ELSE lower_char(species[i])]
    \o <<".html">>

-----------------------------------------------------------------------------
(* st.cache_data(ttl=86_400): entries are [value, stored_at] *)

TTL == 86400

\* the store holds an entry for the key that has not expired
\* a cache whose entries never expire
CacheHit_no_expiry(cache, key) == key \in DOMAIN cache

CacheHit(cache, key) ==
    key \in DOMAIN cache /\ now < cache[key].stored_at + TTL

\* the store after the function ran for the key and returned value
CacheStore(cache, key, value) ==
    [k \in DOMAIN cache \cup {key} |->
        IF k = key THEN [value |-> value, stored_at |-> now] ELSE cache[k]]

-----------------------------------------------------------------------------
(* The script *)

\* str.splitlines(): the lines of s, cur being the line under construction
RECURSIVE ScanLines(_, _)
ScanLines(s, cur) ==
    IF s = <<>> THEN (IF cur = <<>> THEN <<>> ELSE <<cur>>)
    ELSE IF Head(s) = "\r" /\ Len(s) >= 2 /\ s[2] = "\n"
    THEN <<cur>> \o ScanLines(Tail(Tail(s)), <<>>)
    ELSE IF Head(s) \in {"\n", "\r"}
    THEN <<cur>> \o ScanLines(Tail(s), <<>>)
    ELSE ScanLines(Tail(s), Append(cur, Head(s)))

splitlines(s) == ScanLines(s, <<>>)

\* the list without the strip of the kept lines
SpeciesList_untrimmed(txt) ==
    SelectSeq(splitlines(txt), LAMBDA l : strip(l) # <<>>)

\* [s.strip() for s in input_txt.splitlines() if s.strip()]
SpeciesList(txt) ==
    LET lines == splitlines(txt)
        kept  == SelectSeq(lines, LAMBDA l : strip(l) # <<>>)
    IN  [i \in 1..Len(kept) |-> strip(kept[i])]

\* a flag that is true from the first run
ButtonClicked_always(state, pressed) == TRUE

\* st.session_state.button_clicked after lines 504-509
ButtonClicked(state, pressed) ==
    LET initial == IF "button_clicked" \in DOMAIN state
                   THEN state["button_clicked"] ELSE FALSE
    IN  IF pressed THEN TRUE ELSE initial

Flag == "button_clicked" \in DOMAIN session_state /\ session_state["button_clicked"]

AllSources == {"OpenObs", "FloreAlpes", "InfoFlora", "Tela Botanica", "Biodiv'AURA", "INPN"}

sp == species_list[sp_idx + 1]

\* the current section with one more source looked up
Looked(source) ==
    [sections EXCEPT ![Len(sections)].sources = @ \cup {[source |-> source, species |-> sp]}]

Failed(reqs) == \E i \in 1..Len(reqs) : reqs[i].outcome # "none"

\* one run of the script down to the loop over the species
Rerun(txt, pressed, debug) ==
    /\ pc \in {"start", "idle"}
    /\ runs' = runs + 1
    /\ DEBUG_MODE' = debug
    /\ TAXREF_DATA' = IF TAXREF_DATA.kind = "unset"
                      THEN load_cd_ref_data(csv_file) ELSE TAXREF_DATA
    /\ input_txt' = txt
    /\ button_pressed' = pressed
    /\ pressed_before' = (pressed_before \/ pressed)
    /\ failed_run' = FALSE
    /\ sections' = <<>>
    /\ sp_idx' = 0
    /\ last' = NoCall
    /\ url_fa' = None
    /\ scraped' = [img |-> None, tbl |-> NoTable]
    /\ url_tb' = None
    /\ IF TAXREF_DATA'.kind = "raised"
       THEN /\ pc' = "crashed"
            /\ UNCHANGED <<session_state, species_list>>
       ELSE LET clicked == ButtonClicked(session_state, pressed)
            IN  IF clicked /\ strip(txt) # <<>>
                THEN /\ session_state' = [k \in {"button_clicked"} |-> TRUE]
                     /\ species_list' = SpeciesList(txt)
                     /\ pc' = IF species_list' = <<>> THEN "idle" ELSE "openobs"
                ELSE /\ session_state' = [k \in {"button_clicked"} |-> FALSE]
                     /\ species_list' = <<>>
                     /\ pc' = "idle"
    /\ UNCHANGED <<csv_file, csv_pc, q_species, q_cd_ref, q_openobs, q_biodiv, q_inpn,
                   search_vars, tela_vars, search_cache, html_cache, now, ticks,
                   failed_keys>>

\* what a step of the loop leaves alone
StepUnchanged ==
    UNCHANGED <<csv_vars, DEBUG_MODE, search_vars, tela_vars, session_state, input_txt,
                button_pressed, species_list, now, runs, ticks, pressed_before>>

\* failed_keys after florealpes_search ran for the current species
FailedKeys(reqs) ==
    IF Len(reqs) = 2 /\ reqs[2].outcome # "none"
    THEN failed_keys \cup {species_list[sp_idx + 1]}
    ELSE failed_keys \ {species_list[sp_idx + 1]}

\* subheader and OpenObs map of the current species
OpenObsMap ==
    /\ pc = "openobs"
    /\ sections' = Append(sections,
                     [num |-> sp_idx + 1, name |-> sp,
                      sources |-> {[source |-> "OpenObs", species |-> sp]},
                      openobs |-> openobs_embed(sp)])
    /\ last' = [fn |-> "openobs_embed", reqs |-> <<>>,
                msgs |-> IF Truthy(get_cd_ref_from_csv(sp)) THEN {}
                         ELSE {"OpenObs: CD_REF non trouve"}]
    /\ url_fa' = None
    /\ scraped' = [img |-> None, tbl |-> NoTable]
    /\ url_tb' = None
    /\ pc' = "fa_search"
    /\ UNCHANGED <<sp_idx, search_cache, html_cache, failed_run, failed_keys>>
    /\ StepUnchanged

\* FloreAlpes tab: url_fa = florealpes_search(sp), through its cache
FloreAlpesSearch(home, resp) ==
    /\ pc = "fa_search"
    /\ sections' = Looked("FloreAlpes")
    /\ IF CacheHit(search_cache, sp)
       THEN /\ url_fa' = search_cache[sp].value
            /\ last' = [fn |-> "florealpes_search", reqs |-> <<>>, msgs |-> {}]
            /\ pc' = IF Truthy(url_fa') THEN "fa_scrape" ELSE "infoflora"
            /\ UNCHANGED <<search_cache, failed_run, failed_keys>>
       ELSE LET out == florealpes_search(sp, home, resp)
            IN  /\ last' = [fn |-> "florealpes_search", reqs |-> out.reqs,
                            msgs |-> out.msgs]
                /\ failed_run' = (failed_run \/ Failed(out.reqs))
                /\ IF out.exc # "none"
                   THEN /\ pc' = "crashed"
                        /\ UNCHANGED <<url_fa, search_cache, failed_keys>>
                   ELSE /\ url_fa' = out.ret
                        /\ failed_keys' = FailedKeys(out.reqs)
                        /\ search_cache' = CacheStore(search_cache, sp, out.ret)
                        /\ pc' = IF Truthy(out.ret) THEN "fa_scrape" ELSE "infoflora"
    /\ UNCHANGED <<sp_idx, scraped, url_tb, html_cache>>
    /\ StepUnchanged

\* what the FloreAlpes tab shows for img and tbl
TabMessages(res) ==
    (IF Truthy(res.img) THEN {} ELSE {"Image non trouvee"})
    \cup (IF res.tbl.kind # "None" /\ res.tbl.rows # <<>> THEN {}
          ELSE IF res.tbl.kind # "None" /\ res.tbl.rows = <<>>
          THEN {"Tableau caracteristiques vide"}
          ELSE {"Tableau caracteristiques non trouve"})

\* FloreAlpes tab: img, tbl = scrape_florealpes(url_fa), fetch_html cached
FloreAlpesScrape(resp) ==
    /\ pc = "fa_scrape"
    /\ IF CacheHit(html_cache, url_fa)
       THEN /\ scraped' = scrape_florealpes(url_fa, html_cache[url_fa].value)
            /\ last' = [fn |-> "fetch_html", reqs |-> <<>>,
                        msgs |-> TabMessages(scraped')]
            /\ pc' = "infoflora"
            /\ UNCHANGED <<html_cache, failed_run>>
       ELSE LET out == fetch_html(url_fa, resp)
            IN  /\ failed_run' = (failed_run \/ Failed(out.reqs))
                /\ IF out.exc # "none"
                   THEN /\ pc' = "crashed"
                        /\ last' = [fn |-> "fetch_html", reqs |-> out.reqs,
                                    msgs |-> out.msgs]
                        /\ UNCHANGED <<scraped, html_cache>>
                   ELSE /\ scraped' = scrape_florealpes(url_fa, out.ret)
                        /\ last' = [fn |-> "fetch_html", reqs |-> out.reqs,
                                    msgs |-> out.msgs \cup TabMessages(scraped')]
                        /\ html_cache' = CacheStore(html_cache, url_fa, out.ret)
                        /\ pc' = "infoflora"
    /\ UNCHANGED <<sp_idx, sections, url_fa, url_tb, search_cache, failed_keys>>
    /\ StepUnchanged

InfoFloraTab ==
    /\ pc = "infoflora"
    /\ sections' = Looked("InfoFlora")
    /\ last' = [fn |-> "infoflora_url", reqs |-> <<>>, msgs |-> {}]
    /\ pc' = "tela"
    /\ UNCHANGED <<sp_idx, url_fa, scraped, url_tb, search_cache, html_cache, failed_run,
                   failed_keys>>
    /\ StepUnchanged

TelaBotanicaTab(resp) ==
    /\ pc = "tela"
    /\ sections' = Looked("Tela Botanica")
    /\ LET out == tela_botanica_url(sp, resp)
       IN  /\ last' = [fn |-> "tela_botanica_url", reqs |-> out.reqs, msgs |-> out.msgs]
           /\ failed_run' = (failed_run \/ Failed(out.reqs))
           /\ IF out.exc # "none"
              THEN pc' = "crashed" /\ UNCHANGED url_tb
              ELSE pc' = "biodiv" /\ url_tb' = out.ret
    /\ UNCHANGED <<sp_idx, url_fa, scraped, search_cache, html_cache, failed_keys>>
    /\ StepUnchanged

BiodivAuraTab ==
    /\ pc = "biodiv"
    /\ sections' = Looked("Biodiv'AURA")
    /\ last' = [fn |-> "biodivaura_url", reqs |-> <<>>,
                msgs |-> IF Truthy(get_cd_ref_from_csv(sp)) THEN {}
                         ELSE {"Biodiv'AURA: CD_REF non trouve"}]
    /\ pc' = "inpn"
    /\ UNCHANGED <<sp_idx, url_fa, scraped, url_tb, search_cache, html_cache, failed_run,
                   failed_keys>>
    /\ StepUnchanged

\* INPN tab, then the next species or the end of the script
InpnTab ==
    /\ pc = "inpn"
    /\ sections' = Looked("INPN")
    /\ last' = [fn |-> "inpn_species_url", reqs |-> <<>>, msgs |-> {}]
    /\ sp_idx' = sp_idx + 1
    /\ pc' = IF sp_idx + 1 < Len(species_list) THEN "openobs" ELSE "idle"
    /\ UNCHANGED <<url_fa, scraped, url_tb, search_cache, html_cache, failed_run,
                   failed_keys>>
    /\ StepUnchanged

\* time passes between two runs
Tick(d) ==
    /\ pc = "idle"
    /\ now' = now + d
    /\ ticks' = ticks + 1
    /\ UNCHANGED <<csv_vars, DEBUG_MODE, search_vars, tela_vars, session_state,
                   input_txt, button_pressed, pc, species_list, sp_idx, sections,
                   url_fa, scraped, url_tb, last, search_cache, html_cache, runs,
                   pressed_before, failed_run, failed_keys>>

-----------------------------------------------------------------------------
(* Inputs of the script: texts, files and answers of the network *)

MaxTextLen == 4
MaxRuns == 3
MaxTicks == 2

TextChars == {"a", " ", "\n", "\r"}

Texts == SeqsUpTo(TextChars, MaxTextLen)

\* the texts typed in a session of several runs
SessionTexts == {<<>>, <<" ">>, <<"a">>, <<"b", "\n", "a">>}

\* the texts of a single run: the same, and a name typed twice
RunTexts == SessionTexts \cup {<<"a", "\n", "a">>}

\* the clock advances by one second or by one second less than the TTL
TickSteps == {1, TTL - 1}

AppCsvFiles ==
    {[exists |-> FALSE, lines |-> <<>>],
     DataFile(<<"CD_REF", ",", "NOM LATIN">>, << <<"1", ",", "A">> >>)}

AppHome == {"none", "RequestException"}

\* answers to the search: a failure, a no-results page, a page with nothing,
\* a results page with one link
FoundPage(species) ==
    SearchPage(SearchUrl(species), "", TRUE, <<[resultats |-> TRUE]>>,
               <<[fiche |-> TRUE, in_symb |-> TRUE, table |-> 1]>>)

AppSearch(species) ==
    {SearchFailure,
     SearchPage(SearchUrl(species), "aucun resultat a votre requete", FALSE, <<>>, <<>>),
     SearchPage(SearchUrl(species), "", FALSE, <<>>, <<>>),
     FoundPage(species)}

FichePage ==
    [kind |-> "soup",
     images |-> <<[jpg |-> TRUE, features |-> {1}, width |-> NoAttr]>>,
     tables |-> <<[fiche |-> TRUE, keywords |-> 2,
                   rows |-> <<[cells |-> 2, attribute |-> <<"a">>, value |-> <<"b">>]>>]>>]

BarePage == [kind |-> "soup", images |-> <<>>, tables |-> <<>>]

AppFetch ==
    {[exc |-> "RequestException", soup |-> NoSoup],
     [exc |-> "none", soup |-> FichePage],
     [exc |-> "none", soup |-> BarePage]}

FoundEntry(species) ==
    TelaAnswer("json", "list",
               <<[type |-> "dict", nom_sci |-> species, num_nomen |-> "101"]>>)

AppTela(species) ==
    {TelaFailure, TelaAnswer("invalid", "null", <<>>), FoundEntry(species)}

AppFresh ==
    /\ csv_pc = "off"
    /\ q_species = None
    /\ q_cd_ref = None
    /\ q_openobs = None
    /\ q_biodiv = None
    /\ q_inpn = None
    /\ DEBUG_MODE = FALSE
    /\ SearchOff
    /\ TelaOff
    /\ input_txt = <<>>
    /\ button_pressed = FALSE
    /\ pc = "start"
    /\ species_list = <<>>
    /\ sp_idx = 0
    /\ sections = <<>>
    /\ url_fa = None
    /\ scraped = [img |-> None, tbl |-> NoTable]
    /\ url_tb = None
    /\ last = NoCall
    /\ search_cache = EmptyMap
    /\ html_cache = EmptyMap
    /\ now = 0
    /\ ticks = 0
    /\ failed_run = FALSE
    /\ failed_keys = {}

\* a new session: the first run of the script is about to start
InitSession ==
    /\ csv_file \in AppCsvFiles
    /\ TAXREF_DATA = Unloaded
    /\ session_state = EmptyMap
    /\ runs = 0
    /\ pressed_before = FALSE
    /\ AppFresh

\* some run of a session is about to start: its first, or a later one with
\* the flag left false or true by the run before
Init ==
    /\ csv_file \in AppCsvFiles
    /\ session_state \in {EmptyMap,
                          [k \in {"button_clicked"} |-> FALSE],
                          [k \in {"button_clicked"} |-> TRUE]}
    /\ TAXREF_DATA = IF session_state = EmptyMap THEN Unloaded
                     ELSE load_cd_ref_data(csv_file)
    /\ runs = IF session_state = EmptyMap THEN 0 ELSE 1
    /\ pressed_before = Flag
    /\ AppFresh

\* the steps of the loop over the species
Tabs ==
    \/ OpenObsMap
    \/ pc = "fa_search" /\ \E home \in AppHome : \E resp \in AppSearch(sp) :
          FloreAlpesSearch(home, resp)
    \/ \E resp \in AppFetch : FloreAlpesScrape(resp)
    \/ InfoFloraTab
    \/ pc = "tela" /\ \E resp \in AppTela(sp) : TelaBotanicaTab(resp)
    \/ BiodivAuraTab
    \/ InpnTab

\* one run of the script, the network answering in any way
Next ==
    \/ \E txt \in RunTexts, pressed \in BOOLEAN, debug \in BOOLEAN :
          pc = "start" /\ Rerun(txt, pressed, debug)
    \/ Tabs

Spec == Init /\ [][Next]_vars

\* the steps of the loop when the sites answer: the search finds the fiche
\* or fails, the fiche and the API answer
TabsOnline ==
    \/ OpenObsMap
    \/ pc = "fa_search" /\ \E resp \in {SearchFailure, FoundPage(sp)} :
          FloreAlpesSearch("none", resp)
    \/ FloreAlpesScrape([exc |-> "none", soup |-> FichePage])
    \/ InfoFloraTab
    \/ pc = "tela" /\ TelaBotanicaTab(FoundEntry(sp))
    \/ BiodivAuraTab
    \/ InpnTab

\* one run of the script on any text
NextText ==
    \/ \E txt \in Texts, pressed \in BOOLEAN :
          pc = "start" /\ Rerun(txt, pressed, FALSE)
    \/ TabsOnline

SpecText == Init /\ [][NextText]_vars

\* a session: runs of the script, time passing between them
NextSession ==
    \/ \E txt \in SessionTexts, pressed \in BOOLEAN :
          runs < MaxRuns /\ Rerun(txt, pressed, FALSE)
    \/ Tabs
    \/ \E d \in TickSteps : ticks < MaxTicks /\ Tick(d)

SpecSession == InitSession /\ [][NextSession]_vars

-----------------------------------------------------------------------------
(* Properties of one run of the script, checked under SpecText and Spec *)

\* the positions that end a line, with the two ends of the text
Cuts(txt) ==
    {0, Len(txt) + 1} \cup {i \in 1..Len(txt) : txt[i] \in {"\n", "\r"}}

NthCut(txt, k) ==
    CHOOSE c \in Cuts(txt) : Cardinality({x \in Cuts(txt) : x < c}) = k - 1

\* the text between the k-th cut and the next
TextLine(txt, k) == SubSeq(txt, NthCut(txt, k) + 1, NthCut(txt, k + 1) - 1)

\* a line without its surrounding whitespace
Trimmed(l) ==
    LET ink == {i \in 1..Len(l) : l[i] \notin Whitespace}
    IN  IF ink = {} THEN <<>>
        ELSE SubSeq(l, Min(ink), CHOOSE i \in ink : \A j \in ink : j <= i)

\* the numbers of the lines that are not blank
NonBlank(txt) ==
    {k \in 1..(Cardinality(Cuts(txt)) - 1) : Trimmed(TextLine(txt, k)) # <<>>}

\* the n-th non-blank line, trimmed
NthName(txt, n) ==
    Trimmed(TextLine(txt,
        CHOOSE k \in NonBlank(txt) :
            Cardinality({j \in NonBlank(txt) : j < k}) = n - 1))

SectionComplete(k) ==
    /\ sections[k].num = k
    /\ sections[k].name = NthName(input_txt, k)
    /\ sections[k].sources =
         {[source |-> src, species |-> NthName(input_txt, k)] : src \in AllSources}

\* C1: when a search runs, the sections are those of the non-blank lines of
\* the text, trimmed, in order and with repetitions, numbered from 1, and in
\* each the six sources are looked up for that name.
C1_OneSectionPerLine ==
    /\ Len(sections) <= Cardinality(NonBlank(input_txt))
    /\ \A k \in 1..Len(sections) :
          /\ sections[k].num = k
          /\ sections[k].name = NthName(input_txt, k)
          /\ (k < Len(sections) \/ pc = "idle") => SectionComplete(k)
    /\ (pc = "idle" /\ Flag) =>
          Len(sections) = Cardinality(NonBlank(input_txt))

\* a finished search over a text with a blank before the first name and
\* the same name on two lines
C1_Witness ==
    /\ pc = "idle"
    /\ Flag
    /\ Len(sections) = 2
    /\ sections[1].name = sections[2].name
    /\ input_txt[1] = " "
    /\ SectionComplete(2)

\* the message that reports the failure of a request
FailureMessage(fn, i) ==
    CASE fn = "florealpes_search" /\ i = 1 -> "DEBUG FloreAlpes: page d'accueil non chargee"
      [] fn = "florealpes_search" /\ i = 2 -> "FloreAlpes: erreur de requete"
      [] fn = "fetch_html"                 -> "Erreur lors du telechargement"
      [] OTHER                             -> TelaCaught(last.reqs[i].outcome)

\* C7 as stated: every failed request is reported by a message.
C7_EveryFailureReported ==
    \A i \in 1..Len(last.reqs) :
        last.reqs[i].outcome # "none" => FailureMessage(last.fn, i) \in last.msgs

\* C7 amended: no exception leaves florealpes_search, fetch_html or
\* tela_botanica_url; a failed search, page fetch or API call is reported by
\* a message and gives None for that source; a failed home page request is
\* reported in debug mode only and the search request is still sent; every
\* species of the list gets its complete section.
C7_FailuresContained ==
    /\ pc # "crashed"
    /\ (last.fn = "florealpes_search" /\ Len(last.reqs) >= 1
        /\ last.reqs[1].outcome # "none") =>
          /\ Len(last.reqs) = 2
          /\ last.reqs[2].url = SearchUrl(sections[Len(sections)].name)
          /\ DEBUG_MODE => FailureMessage(last.fn, 1) \in last.msgs
    /\ (last.fn = "florealpes_search" /\ Len(last.reqs) = 2
        /\ last.reqs[2].outcome # "none") =>
          /\ url_fa = None
          /\ FailureMessage(last.fn, 2) \in last.msgs
          /\ pc = "infoflora"
    /\ (last.fn = "fetch_html" /\ Failed(last.reqs)) =>
          /\ scraped = [img |-> None, tbl |-> NoTable]
          /\ FailureMessage(last.fn, 1) \in last.msgs
          /\ pc = "infoflora"
    /\ (last.fn = "tela_botanica_url" /\ Failed(last.reqs)) =>
          /\ url_tb = None
          /\ FailureMessage(last.fn, 1) \in last.msgs
          /\ pc = "biodiv"
    /\ (pc = "idle" /\ Flag) =>
          /\ Len(sections) = Len(species_list)
          /\ \A k \in 1..Len(sections) :
                {e.source : e \in sections[k].sources} = AllSources

\* a finished run of two species in which a request failed during the first
C7_Witness ==
    /\ pc = "idle"
    /\ Flag
    /\ failed_run
    /\ Len(sections) = 2
    /\ sections[1].name # sections[2].name
    /\ sections[1].name \in failed_keys
    /\ {e.source : e \in sections[2].sources} = AllSources

-----------------------------------------------------------------------------
(* Properties of a session, checked under SpecSession *)

\* C2: look-ups happen only in a run with the flag button_clicked true and a
\* non-blank text; the flag is false when the session starts and becomes
\* true only in a run in which the button was pressed; so no look-up
\* happens before the first press.
C2_NoLookupBeforePress ==
    /\ [](runs = 0 => ~Flag)
    /\ []((sections # <<>> \/ last.fn # "" \/ pc \notin {"start", "idle", "crashed"}) =>
            (Flag /\ strip(input_txt) # <<>> /\ pressed_before))
    /\ [][(~Flag /\ Flag') => button_pressed']_vars

\* a run that looks species up without a press, the flag being kept from an
\* earlier run
C2_Witness ==
    /\ runs >= 2
    /\ ~button_pressed
    /\ sections # <<>>
    /\ last.fn = "inpn_species_url"

\* C9: a call of florealpes_search or fetch_html made less than 86 400 s
\* after the call that filled the cache for the same argument returns the
\* stored value and sends no request; otherwise the requests are sent and
\* the value returned is stored with the time of the call, also when it is
\* the None of a failed request.
C9_TimeBasedCache ==
    [][/\ (pc = "fa_search" /\ pc' # "fa_search") =>
            IF /\ sp \in DOMAIN search_cache
               /\ now - search_cache[sp].stored_at < 86400
            THEN /\ last'.reqs = <<>>
                 /\ url_fa' = search_cache[sp].value
                 /\ search_cache' = search_cache
            ELSE /\ Len(last'.reqs) >= 1
                 /\ sp \in DOMAIN search_cache'
                 /\ search_cache'[sp] = [value |-> url_fa', stored_at |-> now]
                 /\ Failed(<<last'.reqs[Len(last'.reqs)]>>) => search_cache'[sp].value = None
       /\ (pc = "fa_scrape" /\ pc' # "fa_scrape") =>
            IF /\ url_fa \in DOMAIN html_cache
               /\ now - html_cache[url_fa].stored_at < 86400
            THEN /\ last'.reqs = <<>>
                 /\ scraped' = scrape_florealpes(url_fa, html_cache[url_fa].value)
                 /\ html_cache' = html_cache
            ELSE /\ Len(last'.reqs) = 1
                 /\ url_fa \in DOMAIN html_cache'
                 /\ html_cache'[url_fa].stored_at = now
                 /\ scraped' = scrape_florealpes(url_fa, html_cache'[url_fa].value)
                 /\ Failed(last'.reqs) => html_cache'[url_fa].value = NoSoup
      ]_vars

\* in a later run, some time after a failed search, the stored None is
\* returned for the same species without any request
C9_Witness ==
    /\ runs >= 2
    /\ last.fn = "florealpes_search"
    /\ last.reqs = <<>>
    /\ url_fa = None
    /\ sections # <<>>
    /\ sections[Len(sections)].name \in failed_keys
    /\ sections[Len(sections)].name \in DOMAIN search_cache
    /\ now - search_cache[sections[Len(sections)].name].stored_at = TTL - 1

-----------------------------------------------------------------------------
(* The fiche pages scrape_florealpes is run on *)

MaxImages == 2
MaxWidthLen == 3
MaxPageTables == 2
MaxTableRows == 3

\* the tokens of a width attribute
WidthChars == {"5", "0", "1", "px", "x"}

Widths == {NoAttr} \cup SeqsUpTo(WidthChars, MaxWidthLen)

\* the contexts an image stands in, among those of the first seven selectors
FeatureSets == {{}, {2}, {1, 7}}

Page(imgs, tbls) == [kind |-> "soup", images |-> imgs, tables |-> tbls]

\* pages with one image, of any width
OneImagePages ==
    {Page(<<[jpg |-> j, features |-> f, width |-> w]>>, <<>>) :
        j \in BOOLEAN, f \in FeatureSets, w \in Widths}

\* images around the threshold of 50
ScanImages ==
    {[jpg |-> j, features |-> f, width |-> w] :
        j \in BOOLEAN, f \in FeatureSets,
        w \in {NoAttr, <<"5", "0">>, <<"5", "1">>}}

\* pages with several images
ManyImagePages == {Page(imgs, <<>>) : imgs \in SeqsUpTo(ScanImages, MaxImages)}

\* rows: two cells, two cells with a blank first cell, three cells
RowKind ==
    [good  |-> [cells |-> 2, attribute |-> <<" ", "a">>, value |-> <<"b", " ">>],
     other |-> [cells |-> 2, attribute |-> <<"c">>, value |-> <<>>],
     blank |-> [cells |-> 2, attribute |-> <<" ">>, value |-> <<"b">>],
     wide  |-> [cells |-> 3, attribute |-> <<"a">>, value |-> <<"b">>]]

RowKinds == {RowKind[k] : k \in DOMAIN RowKind}

\* pages with one table, of class fiche or with two keywords, of any rows
RowsPages ==
    {Page(<<>>, <<[fiche |-> f, keywords |-> 2, rows |-> rows]>>) :
        f \in BOOLEAN, rows \in SeqsUpTo(RowKinds, MaxTableRows)}

\* tables of class fiche, with keywords, with both or with neither
ChoiceTables ==
    {[fiche |-> TRUE, keywords |-> 1, rows |-> <<RowKind.good>>],
     [fiche |-> TRUE, keywords |-> 1, rows |-> <<>>],
     [fiche |-> FALSE, keywords |-> 2, rows |-> <<RowKind.other>>],
     [fiche |-> FALSE, keywords |-> 2, rows |-> <<RowKind.blank>>],
     [fiche |-> FALSE, keywords |-> 2, rows |-> <<RowKind.wide>>],
     [fiche |-> FALSE, keywords |-> 1, rows |-> <<RowKind.other>>]}

\* pages with several tables
ManyTablePages ==
    {Page(<<>>, tbls) : tbls \in SeqsUpTo(ChoiceTables, MaxPageTables)}

\* pages with tables
TablePages == RowsPages \cup ManyTablePages

\* answers to the request of the fiche
ScrapeFetch ==
    {[exc |-> "RequestException", soup |-> NoSoup]}
    \cup {[exc |-> "none", soup |-> page] :
             page \in OneImagePages \cup ManyImagePages \cup TablePages}

\* a new session whose local file is there
InitScrape == InitSession /\ csv_file.exists

\* the steps of the loop for a species whose fiche is found
TabsScrape ==
    \/ OpenObsMap
    \/ pc = "fa_search" /\ FloreAlpesSearch("none", FoundPage(sp))
    \/ pc = "fa_scrape" /\ \E resp \in ScrapeFetch : FloreAlpesScrape(resp)
    \/ InfoFloraTab
    \/ pc = "tela" /\ TelaBotanicaTab(FoundEntry(sp))
    \/ BiodivAuraTab
    \/ InpnTab

\* one run of the script for one species, on any fiche
NextScrape ==
    \/ pc = "start" /\ Rerun(<<"a">>, TRUE, FALSE)
    \/ TabsScrape

SpecScrape == InitScrape /\ [][NextScrape]_vars

-----------------------------------------------------------------------------
(* Properties of scrape_florealpes, checked under SpecScrape *)

\* the fiche has been downloaded and parsed
Fetched == url_fa \in DOMAIN html_cache /\ html_cache[url_fa].value.kind = "soup"

ThePage == html_cache[url_fa].value

\* the images of the page matched by the k-th selector
Matched(page, k) == {i \in 1..Len(page.images) : MatchesSelector(page.images[i], k)}

AllDigits(w) == w # <<>> /\ \A i \in 1..Len(w) : IsDigit(w[i])

\* the width is an integer, optionally followed by 'px'
PlainWidth(w) ==
    \/ AllDigits(w)
    \/ Len(w) >= 2 /\ w[Len(w)] = "px" /\ AllDigits(SubSeq(w, 1, Len(w) - 1))

\* the integer of such a width
PlainValue(w) ==
    IF w[Len(w)] = "px" THEN int(SubSeq(w, 1, Len(w) - 1)) ELSE int(w)

\* acceptable as the statement reads: absent, an integer (optionally suffixed
\* 'px') above 50, or not such an integer
StatedWidth(w) ==
    \/ w = NoAttr
    \/ ~PlainWidth(w)
    \/ PlainValue(w) > 50

\* what is left of the width when every 'px' is taken out
WithoutPx(w) ==
    LET keep == {i \in 1..Len(w) : w[i] # "px"}
    IN  [n \in 1..Cardinality(keep) |->
            w[CHOOSE i \in keep : Cardinality({j \in keep : j < i}) = n - 1]]

\* acceptable: absent, or without its 'px' an integer above 50 or no integer
AcceptedWidth(w) ==
    \/ w = NoAttr
    \/ ~AllDigits(WithoutPx(w))
    \/ int(WithoutPx(w)) > 50

\* the selectors whose first element has a width acceptable as stated
StatedSelectors(page) ==
    {k \in 1..NumSelectors :
        Matched(page, k) # {} /\ StatedWidth(page.images[Min(Matched(page, k))].width)}

\* the selectors whose first element has an acceptable width
AcceptedSelectors(page) ==
    {k \in 1..NumSelectors :
        Matched(page, k) # {} /\ AcceptedWidth(page.images[Min(Matched(page, k))].width)}

\* the src, resolved against the page URL, of the first element of the first
\* selector of the set
ImageOf(page, selectors) ==
    IF selectors = {} THEN None
    ELSE urljoin(url_fa, ImgSrc(Min(Matched(page, Min(selectors)))))

\* C11 as stated: the image is that of the first selector, in the listed
\* order, whose first element has a width that is absent, an integer
\* optionally suffixed 'px' above 50, or not such an integer.
C11_SuffixPx ==
    Fetched => scraped.img = ImageOf(ThePage, StatedSelectors(ThePage))

\* C11 amended: the image is that of the first selector, in the listed order,
\* whose first element has a width that is absent or that, once every 'px'
\* in it is removed, is an integer above 50 or is no integer; an element
\* whose width so read is 50 or less is passed over; the image is None when
\* no selector gives such an element.
C11_PxRemovedAnywhere ==
    /\ Fetched => scraped.img = ImageOf(ThePage, AcceptedSelectors(ThePage))
    /\ (Fetched /\ scraped.img # None) =>
          \E i \in 1..Len(ThePage.images) :
              /\ scraped.img = urljoin(url_fa, ImgSrc(i))
              /\ AcceptedWidth(ThePage.images[i].width)
    /\ (Fetched /\ AcceptedSelectors(ThePage) = {}) => scraped.img = None

\* the first selector matches an image of width 50 first; the scan went on
\* and returned the second image, found by a later selector
C11_Witness ==
    /\ Fetched
    /\ Len(ThePage.images) = 2
    /\ 1 \in Matched(ThePage, 1)
    /\ ThePage.images[1].width = <<"5", "0">>
    /\ scraped.img = urljoin(url_fa, ImgSrc(2))
    /\ last.fn = "fetch_html"

\* the table has at least two keywords and a row of exactly two cells
Qualifies(tbl) ==
    tbl.keywords >= 2 /\ \E r \in 1..Len(tbl.rows) : tbl.rows[r].cells = 2

\* t is the table the characteristics are taken from
IsChosen(page, t) ==
    \/ /\ page.tables[t].fiche
       /\ \A u \in 1..(t - 1) : ~page.tables[u].fiche
    \/ /\ \A u \in 1..Len(page.tables) : ~page.tables[u].fiche
       /\ Qualifies(page.tables[t])
       /\ \A u \in 1..(t - 1) : ~Qualifies(page.tables[u])

\* the rows of two cells whose first cell holds text
KeptRows(tbl) ==
    {r \in 1..Len(tbl.rows) :
        tbl.rows[r].cells = 2 /\ Trimmed(tbl.rows[r].attribute) # <<>>}

\* these rows in document order, as attribute and value
RowsOf(tbl) ==
    [n \in 1..Cardinality(KeptRows(tbl)) |->
        [Attribut |-> Trimmed(tbl.rows[
                        CHOOSE r \in KeptRows(tbl) :
                            Cardinality({q \in KeptRows(tbl) : q < r}) = n - 1].attribute),
         Valeur   |-> Trimmed(tbl.rows[
                        CHOOSE r \in KeptRows(tbl) :
                            Cardinality({q \in KeptRows(tbl) : q < r}) = n - 1].value)]]

\* C12: the characteristics come from the first table of class fiche and,
\* only when there is none, from the first table with two keywords and a row
\* of two cells; the result holds exactly the rows of that table with two
\* cells and a non-empty first cell, in order; it is None when the page
\* could not be fetched, no table qualifies or no row qualifies; it is never
\* an empty table, and the tab never shows its message for an empty table.
C12_TableRows ==
    /\ (url_fa \in DOMAIN html_cache /\ html_cache[url_fa].value.kind = "None") =>
          scraped.tbl = NoTable
    /\ Fetched =>
          /\ \A t \in 1..Len(ThePage.tables) :
                IsChosen(ThePage, t) =>
                    IF KeptRows(ThePage.tables[t]) # {}
                    THEN scraped.tbl = [kind |-> "DataFrame",
                                        rows |-> RowsOf(ThePage.tables[t])]
                    ELSE scraped.tbl = NoTable
          /\ (\A t \in 1..Len(ThePage.tables) : ~IsChosen(ThePage, t)) =>
                scraped.tbl = NoTable
    /\ scraped.tbl.kind # "None" => scraped.tbl.rows # <<>>
    /\ "Tableau caracteristiques vide" \notin last.msgs

\* a table with two keywords and a row of two cells stands before the table
\* of class fiche: the row returned is that of the latter, trimmed
C12_Witness ==
    /\ Fetched
    /\ last.fn = "fetch_html"
    /\ Len(ThePage.tables) = 2
    /\ ~ThePage.tables[1].fiche
    /\ Qualifies(ThePage.tables[1])
    /\ ThePage.tables[2].fiche
    /\ Len(ThePage.tables[2].rows) = 1
    /\ ThePage.tables[2].rows[1].attribute = <<" ", "a">>
    /\ ThePage.tables[1].rows[1].attribute = <<"c">>
    /\ scraped.tbl = [kind |-> "DataFrame",
                      rows |-> <<[Attribut |-> <<"a">>, Valeur |-> <<"b">>]>>]

====
